---- MODULE Spec2Model ----
(***************************************************************************)
(* Agents of the information-contagion network: the PsychologicalAgent of  *)
(* src/src/agents/rational_agent.py, its base state of base_agent.py and   *)
(* the population builders of agent_factory.py.                            *)
(*                                                                         *)
(* Python floats are modelled as exact fixed-point numbers.  Every         *)
(* quantity has one unit, and all inputs are multiples of 0.1:             *)
(*   value, loss_sensitivity, source_trust (argument), interaction_outcome,*)
(*   confirmation_bias, learning_rate, the random draw ...... tenths       *)
(*   psychological_impact ................................... hundredths   *)
(*   trusted_impact, confirmation_bonus, final_impact,                     *)
(*   trust_level, default_trust, connections, trust_change .. thousandths  *)
(*   beliefs, the returned belief delta ..................... 1/10000      *)
(* Quotients (share_probability, the means of the summary) are kept as     *)
(* fractions [num, den] and compared by cross-multiplication.              *)
(***************************************************************************)
EXTENDS Integers, Sequences, FiniteSets, TLC

VARIABLES agent, twin, call, twinCall, calls, delivered, population

vars == <<agent, twin, call, twinCall, calls, delivered, population>>

(***************************************************************************)
(* Bounds of the model.                                                    *)
(***************************************************************************)
MaxCalls == 2

MaxSize == 4

(***************************************************************************)
(* Units.                                                                  *)
(***************************************************************************)
One == 10

TrustOne == 100 * One

BeliefOne == 1000 * One

Frac(n, d) == [num |-> n, den |-> d]

FracEq(a, b) == a.num * b.den = b.num * a.den

Abs(x) == IF x < 0 THEN -x ELSE x

\* Python's min(a, b) and max(a, b): the first argument unless the second beats it.
PyMin(a, b) == IF b < a THEN b ELSE a

PyMax(a, b) == IF b > a THEN b ELSE a

(***************************************************************************)
(* dict: a function whose DOMAIN is the set of keys present.               *)
(***************************************************************************)
EmptyDict == [k \in {} |-> 0]

DictGet(d, k, default) == IF k \in DOMAIN d THEN d[k] ELSE default

DictSet(d, k, v) == [x \in (DOMAIN d) \cup {k} |-> IF x = k THEN v ELSE d[x]]

RECURSIVE SumOver(_, _)
SumOver(d, keys) ==
    IF keys = {} THEN 0
    ELSE LET k == CHOOSE x \in keys : TRUE
         IN d[k] + SumOver(d, keys \ {k})

DictSum(d) == SumOver(d, DOMAIN d)

DictAbsSum(d) == SumOver([k \in DOMAIN d |-> Abs(d[k])], DOMAIN d)

DictLen(d) == Cardinality(DOMAIN d)

(***************************************************************************)
(* base_agent.py                                                           *)
(***************************************************************************)
Information(topic, value, confidence, source_id, timestamp) ==
    [topic |-> topic, value |-> value, confidence |-> confidence,
     source_id |-> source_id, timestamp |-> timestamp]

BaseAgent(agent_id) ==
    [agent_id |-> agent_id,
     beliefs |-> EmptyDict,
     connections |-> EmptyDict,
     information_history |-> <<>>]

(***************************************************************************)
(* rational_agent.py: PsychologicalAgent                                   *)
(***************************************************************************)
confirmation_bias == 3

social_proof_weight == 4

learning_rate == 3

PsychologicalAgent(agent_id, trust_level, loss_sensitivity) ==
    [kind |-> "PsychologicalAgent",
     agent_id |-> agent_id,
     beliefs |-> BaseAgent(agent_id).beliefs,
     connections |-> BaseAgent(agent_id).connections,
     information_history |-> BaseAgent(agent_id).information_history,
     base_trust_level |-> trust_level,
     loss_sensitivity |-> loss_sensitivity,
     confirmation_bias |-> confirmation_bias,
     social_proof_weight |-> social_proof_weight,
     emotional_state |-> 0,
     default_trust |-> trust_level]

\* Step 1, in hundredths.
PsychologicalImpact(self, value) ==
    IF value < 0 THEN value * self.loss_sensitivity ELSE value * One

\* Step 2, in thousandths.
TrustedImpact(self, value, source_trust) ==
    PsychologicalImpact(self, value) * source_trust

\* Step 3, in thousandths (confirmation_bias is in tenths).
SymmetricBonus(self, current_belief, value) ==
    IF (current_belief >= 0 /\ value >= 0) \/ (current_belief < 0 /\ value < 0)
    THEN self.confirmation_bias * 100
    ELSE -self.confirmation_bias * 100

ConfirmationBonus(self, current_belief, value) ==
    IF (current_belief > 0 /\ value > 0) \/ (current_belief < 0 /\ value < 0)
    THEN self.confirmation_bias * 100
    ELSE -self.confirmation_bias * 100

FinalImpact(self, current_belief, value, source_trust) ==
    TrustedImpact(self, value, source_trust)
        + ConfirmationBonus(self, current_belief, value)

\* Step 4: max(-1.0, min(1.0, new_belief)), in 1/10000.
NoClampBelief(x) == x

ClampBelief(x) == PyMax(-BeliefOne, PyMin(BeliefOne, x))

NewBelief(self, info, source_trust) ==
    LET current_belief == DictGet(self.beliefs, info.topic, 0)
        old_belief == DictGet(self.beliefs, info.topic, 0)
    IN ClampBelief(old_belief
           + learning_rate * FinalImpact(self, current_belief, info.value, source_trust))

HistoryPrepend(history, info) == <<info>> \o history

HistoryAppend(history, info) == Append(history, info)

process_information(self, info, source_trust) ==
    LET old_belief == DictGet(self.beliefs, info.topic, 0)
        new_belief == NewBelief(self, info, source_trust)
    IN [self |-> [self EXCEPT
                    !.beliefs = DictSet(@, info.topic, new_belief),
                    !.information_history = HistoryAppend(@, info)],
        ret |-> Abs(new_belief - old_belief)]

\* share_probability as a fraction, in units of 1/10^8.
ShareProbability(self, info) ==
    LET belief_strength == Abs(DictGet(self.beliefs, info.topic, 0))
        source_trust == DictGet(self.connections, info.source_id, self.default_trust)
        urgency_factor == IF info.value < 0 THEN self.loss_sensitivity ELSE One
    IN Frac(belief_strength * source_trust * urgency_factor, 3)

\* random.random() < share_probability, the draw in tenths.
DrawAtMost(draw, p) == draw * BeliefOne * TrustOne * p.den <= p.num

DrawBelow(draw, p) == draw * BeliefOne * TrustOne * p.den < p.num

decide_to_share_setdefault(self, info, draw) ==
    [self |-> [self EXCEPT
                 !.beliefs = DictSet(@, info.topic, DictGet(@, info.topic, 0)),
                 !.connections = DictSet(@, info.source_id,
                                         DictGet(@, info.source_id, self.default_trust))],
     ret |-> DrawBelow(draw, ShareProbability(self, info))]

decide_to_share(self, info, draw) ==
    [self |-> self,
     ret |-> DrawBelow(draw, ShareProbability(self, info))]

\* trust_change, in thousandths: 0.1 * outcome, or loss_sensitivity * outcome * 0.2.
UnamplifiedTrustChange(self, interaction_outcome) ==
    IF interaction_outcome > 0
    THEN 1 * interaction_outcome * 10
    ELSE One * interaction_outcome * 2

TrustChange(self, interaction_outcome) ==
    IF interaction_outcome > 0
    THEN 1 * interaction_outcome * 10
    ELSE self.loss_sensitivity * interaction_outcome * 2

NoClampTrust(x) == x

ClampTrust(x) == PyMax(0, PyMin(TrustOne, x))

update_trust(self, other_agent_id, interaction_outcome) ==
    LET connections == IF other_agent_id \notin DOMAIN self.connections
                       THEN DictSet(self.connections, other_agent_id, self.default_trust)
                       ELSE self.connections
        current_trust == connections[other_agent_id]
        new_trust == ClampTrust(current_trust + TrustChange(self, interaction_outcome))
    IN [self |-> [self EXCEPT
                    !.connections = DictSet(connections, other_agent_id, new_trust)],
        ret |-> "None"]

\* x / n as a fraction; a zero denominator stands for ZeroDivisionError.
TrueDiv(x, n) == Frac(x, n)

SummaryNoFallback(self) ==
    [agent_id |-> self.agent_id,
     base_trust |-> self.base_trust_level,
     loss_sensitivity |-> self.loss_sensitivity,
     avg_trust |-> TrueDiv(DictSum(self.connections), DictLen(self.connections)),
     num_beliefs |-> DictLen(self.beliefs),
     belief_strength |-> TrueDiv(DictAbsSum(self.beliefs), DictLen(self.beliefs)),
     emotional_state |-> self.emotional_state]

Summary(self) ==
    [agent_id |-> self.agent_id,
     base_trust |-> self.base_trust_level,
     loss_sensitivity |-> self.loss_sensitivity,
     avg_trust |-> IF DictLen(self.connections) # 0
                   THEN TrueDiv(DictSum(self.connections), DictLen(self.connections))
                   ELSE Frac(self.default_trust, 1),
     num_beliefs |-> DictLen(self.beliefs),
     belief_strength |-> IF DictLen(self.beliefs) # 0
                         THEN TrueDiv(DictAbsSum(self.beliefs), DictLen(self.beliefs))
                         ELSE Frac(0, 1),
     emotional_state |-> self.emotional_state]

\* The mapping, or the exception raised while building it.
get_psychological_summary(self) ==
    LET s == Summary(self)
    IN [self |-> self,
        ret |-> IF s.avg_trust.den = 0 \/ s.belief_strength.den = 0
                THEN [raised |-> "ZeroDivisionError"]
                ELSE s]

(***************************************************************************)
(* agent_factory.py                                                        *)
(***************************************************************************)
\* The RationalAgent class: constructed from an agent_id alone.
RationalAgent(agent_id) ==
    [kind |-> "RationalAgent",
     agent_id |-> agent_id,
     beliefs |-> BaseAgent(agent_id).beliefs,
     connections |-> BaseAgent(agent_id).connections,
     information_history |-> BaseAgent(agent_id).information_history]

\* random.uniform(a, b) = a + (b - a) * random(), the draw u in tenths.
uniform(range, u) == range[1] + ((range[2] - range[1]) * u) \div One

\* The default trust_range (0.3, 0.9) in thousandths, loss_sensitivity_range
\* (1.0, 2.5) in tenths.
DefaultTrustRange == <<300, 900>>

DefaultLossSensitivityRange == <<10, 25>>

\* rnd[i] = the two draws of iteration i - 1.
create_psychological_population(size, trust_range, loss_sensitivity_range, rnd) ==
    [i \in 1..size |->
        PsychologicalAgent("psych_agent_" \o ToString(i - 1),
                           uniform(trust_range, rnd[i][1]),
                           uniform(loss_sensitivity_range, rnd[i][2]))]

create_rational_population(size) ==
    [i \in 1..size |-> RationalAgent("rational_agent_" \o ToString(i - 1))]

\* int(x) of a quotient n / d: truncation toward zero.
IntTrunc(n, d) == IF n >= 0 THEN n \div d ELSE -((-n) \div d)

CeilCount(size, psychological_ratio) ==
    (size * psychological_ratio + One - 1) \div One

PsychCount(size, psychological_ratio) == IntTrunc(size * psychological_ratio, One)

\* random.shuffle(agents): perm is the permutation it draws.
shuffle(agents, perm) == [i \in 1..Len(agents) |-> agents[perm[i]]]

create_mixed_population(size, psychological_ratio, rnd, perm) ==
    LET psych_count == PsychCount(size, psychological_ratio)
        rational_count == size - psych_count
        agents == create_psychological_population(psych_count, DefaultTrustRange,
                                                  DefaultLossSensitivityRange, rnd)
                    \o create_rational_population(rational_count)
    IN shuffle(agents, perm)

(***************************************************************************)
(* Inputs of the external driver.                                          *)
(***************************************************************************)
Topics == {"economy", "health"}

Values == {-8, 0, 10}

SourceIds == {"agent_X"}

Infos == {Information(t, v, 9, s, 0) : t \in Topics, v \in Values, s \in SourceIds}

SourceTrusts == {6, 10}

Peers == {"agent_X", "agent_Y"}

Outcomes == {-5, 0, 10}

\* random.random() in [0, 1), in tenths.
Draws == {0, 5, 9}

TrustLevels == {600, 1000}

LossSensitivities == {15, 30}

\* Inputs outside the documented ranges.
WideInfos == {Information(t, v, 9, s, 0) : t \in Topics, v \in {-30, 4, 50}, s \in SourceIds}

WideSourceTrusts == {-10, 20}

WideOutcomes == {-100, 3, 100}

WideTrustLevels == {-500, 1500}

WideLossSensitivities == {-10, 40}

\* Inputs of the confirmation-bias comparison.
BiasInfos == {Information("economy", v, 9, "agent_X", 0) : v \in {-4, 5, 10}}

BiasSourceTrusts == {10}

BiasLossSensitivities == {10, 15}

Sizes == 0..MaxSize \cup {10}

Ratios == {0, 3, 5, 10}

UniformDraws == {0, 8}

\* The random streams tried: stream[i] = the two draws of iteration i - 1.
RandomStreams(n) ==
    {[i \in 1..n |-> <<a, b>>] : a \in UniformDraws, b \in UniformDraws}
        \cup {[i \in 1..n |-> IF i % 2 = 0 THEN <<0, 8>> ELSE <<8, 0>>]}

\* Every outcome of the shuffle up to MaxSize agents; beyond, two of them.
ShuffleOutcomes(n) ==
    IF n <= MaxSize THEN Permutations(1..n)
    ELSE {[i \in 1..n |-> i], [i \in 1..n |-> n + 1 - i]}

(***************************************************************************)
(* The state machine: one agent driven by the external driver (and a twin  *)
(* agent of the same profile for comparisons), the last call on each with  *)
(* its arguments, its result and the agent before it, the number of        *)
(* mutating calls made, the infos the driver delivered, and the population *)
(* the factory built.                                                      *)
(***************************************************************************)
NoCall == [op |-> "none"]

InitWith(trust_levels, loss_sensitivities) ==
    /\ \E tl \in trust_levels, ls \in loss_sensitivities :
          /\ agent = PsychologicalAgent("agent_0", tl, ls)
          /\ twin = PsychologicalAgent("agent_1", tl, ls)
    /\ call = NoCall
    /\ twinCall = NoCall
    /\ calls = 0
    /\ delivered = <<>>
    /\ population = <<>>

Init == InitWith(TrustLevels, LossSensitivities)

InitWide == InitWith(WideTrustLevels, WideLossSensitivities)

InitBias == InitWith(TrustLevels, BiasLossSensitivities)

ProcessInformation(info, source_trust) ==
    /\ calls < MaxCalls
    /\ LET r == process_information(agent, info, source_trust)
       IN /\ agent' = r.self
          /\ call' = [op |-> "process_information", info |-> info,
                      source_trust |-> source_trust, ret |-> r.ret, pre |-> agent]
    /\ calls' = calls + 1
    /\ delivered' = Append(delivered, info)
    /\ UNCHANGED <<twin, twinCall, population>>

TwinProcessInformation(info, source_trust) ==
    /\ Len(twin.information_history) < MaxCalls
    /\ LET r == process_information(twin, info, source_trust)
       IN /\ twin' = r.self
          /\ twinCall' = [op |-> "process_information", info |-> info,
                          source_trust |-> source_trust, ret |-> r.ret, pre |-> twin]
    /\ UNCHANGED <<agent, call, calls, delivered, population>>

DecideToShare(info, draw) ==
    /\ LET r == decide_to_share(agent, info, draw)
       IN /\ agent' = r.self
          /\ call' = [op |-> "decide_to_share", info |-> info, draw |-> draw,
                      ret |-> r.ret, pre |-> agent]
    /\ UNCHANGED <<twin, twinCall, calls, delivered, population>>

UpdateTrust(other_agent_id, interaction_outcome) ==
    /\ calls < MaxCalls
    /\ LET r == update_trust(agent, other_agent_id, interaction_outcome)
       IN /\ agent' = r.self
          /\ call' = [op |-> "update_trust", other_agent_id |-> other_agent_id,
                      interaction_outcome |-> interaction_outcome,
                      ret |-> r.ret, pre |-> agent]
    /\ calls' = calls + 1
    /\ UNCHANGED <<twin, twinCall, delivered, population>>

GetPsychologicalSummary ==
    /\ LET r == get_psychological_summary(agent)
       IN /\ agent' = r.self
          /\ call' = [op |-> "get_psychological_summary", ret |-> r.ret, pre |-> agent]
    /\ UNCHANGED <<twin, twinCall, calls, delivered, population>>

CreateMixedPopulation(size, psychological_ratio) ==
    /\ call.op = "none"
    /\ \E rnd \in RandomStreams(size),
          perm \in ShuffleOutcomes(size) :
          population' = create_mixed_population(size, psychological_ratio, rnd, perm)
    /\ call' = [op |-> "create_mixed_population", size |-> size,
                psychological_ratio |-> psychological_ratio]
    /\ UNCHANGED <<agent, twin, twinCall, calls, delivered>>

Next ==
    \/ \E info \in Infos, source_trust \in SourceTrusts :
          ProcessInformation(info, source_trust)
    \/ \E info \in Infos, draw \in Draws : DecideToShare(info, draw)
    \/ \E peer \in Peers, outcome \in Outcomes : UpdateTrust(peer, outcome)
    \/ GetPsychologicalSummary

NextWide ==
    \/ \E info \in WideInfos, source_trust \in WideSourceTrusts :
          ProcessInformation(info, source_trust)
    \/ \E info \in WideInfos, draw \in Draws : DecideToShare(info, draw)
    \/ \E peer \in Peers, outcome \in WideOutcomes : UpdateTrust(peer, outcome)
    \/ GetPsychologicalSummary

NextBias ==
    \/ \E info \in BiasInfos, source_trust \in BiasSourceTrusts :
          ProcessInformation(info, source_trust)
    \/ \E info \in BiasInfos, source_trust \in BiasSourceTrusts :
          TwinProcessInformation(info, source_trust)

NextFactory ==
    \E size \in Sizes, psychological_ratio \in Ratios :
        CreateMixedPopulation(size, psychological_ratio)

Spec == Init /\ [][Next]_vars

SpecWide == InitWide /\ [][NextWide]_vars

SpecBias == InitBias /\ [][NextBias]_vars

SpecFactory == Init /\ [][NextFactory]_vars

(***************************************************************************)
(* Properties.  Beliefs are in 1/10000, trusts in thousandths.             *)
(***************************************************************************)

\* C1: after any sequence of process_information calls, whatever the magnitude
\* of value, source_trust and loss_sensitivity, every stored belief lies in
\* [-1.0, 1.0].
C1_BeliefClamp ==
    \A topic \in DOMAIN agent.beliefs :
        /\ agent.beliefs[topic] >= -10000
        /\ agent.beliefs[topic] <= 10000

\* Out-of-range inputs have driven one belief to each end of the interval.
C1_Witness ==
    /\ call.op = "process_information"
    /\ Abs(call.info.value) > 10
    /\ \E a, b \in DOMAIN agent.beliefs :
          agent.beliefs[a] = 10000 /\ agent.beliefs[b] = -10000

\* C2: after any sequence of update_trust calls, whatever the outcome, every
\* stored trust lies in [0.0, 1.0], the entry of a new peer included.
C2_TrustClamp ==
    \A peer \in DOMAIN agent.connections :
        /\ agent.connections[peer] >= 0
        /\ agent.connections[peer] <= 1000

\* A peer unknown before the call got its entry from a default_trust above 1.0
\* and a large outcome, while another entry sits at 0.0.
C2_Witness ==
    /\ call.op = "update_trust"
    /\ call.other_agent_id \notin DOMAIN call.pre.connections
    /\ call.pre.default_trust > 1000
    /\ call.interaction_outcome > 10
    /\ agent.connections[call.other_agent_id] = 1000
    /\ \E peer \in DOMAIN agent.connections : agent.connections[peer] = 0

\* C3: information_history is append-only: process_information(info, t) puts
\* info last and extends the history by exactly that element, every other
\* operation leaves it unchanged, and the history is the sequence of infos
\* processed so far in call order (so every earlier history is a prefix).
C3_HistoryAppendOnly ==
    /\ agent.information_history = delivered
    /\ call.op = "process_information" =>
          /\ Len(agent.information_history) = Len(call.pre.information_history) + 1
          /\ agent.information_history[Len(agent.information_history)] = call.info
          /\ SubSeq(agent.information_history, 1, Len(call.pre.information_history))
                = call.pre.information_history
    /\ call.op \in {"decide_to_share", "update_trust", "get_psychological_summary"} =>
          agent.information_history = call.pre.information_history

\* A second info, different from the first, has just been processed.
C3_Witness ==
    /\ call.op = "process_information"
    /\ Len(agent.information_history) >= 2
    /\ agent.information_history[1] # call.info

\* C4: decide_to_share leaves beliefs, connections and information_history as
\* they were; no entry appears for an unknown topic or an unknown source.
C4_DecideToShareFrame ==
    call.op = "decide_to_share" =>
        /\ agent.beliefs = call.pre.beliefs
        /\ agent.connections = call.pre.connections
        /\ agent.information_history = call.pre.information_history
        /\ DOMAIN agent.beliefs = DOMAIN call.pre.beliefs
        /\ DOMAIN agent.connections = DOMAIN call.pre.connections

\* decide_to_share was called for a topic and a source the agent does not
\* know, on an agent that holds other state.
C4_Witness ==
    /\ call.op = "decide_to_share"
    /\ call.info.topic \notin DOMAIN agent.beliefs
    /\ call.info.source_id \notin DOMAIN agent.connections
    /\ agent.beliefs # EmptyDict
    /\ agent.connections # EmptyDict

\* clamp(x, lo, hi) as the claims state it.
Clamped(x, lo, hi) == IF x < lo THEN lo ELSE IF x > hi THEN hi ELSE x

C6_UpdateTrust ==
    call.op = "update_trust" =>
        LET peer == call.other_agent_id
            o == call.interaction_outcome
            L == call.pre.loss_sensitivity
            c == IF peer \in DOMAIN call.pre.connections
                 THEN call.pre.connections[peer] ELSE call.pre.base_trust_level
            new == IF o > 0 THEN Clamped(c + 10 * o, 0, 1000)
                   ELSE Clamped(c + 2 * L * o, 0, 1000)
        IN /\ call.pre.default_trust = call.pre.base_trust_level
           /\ DOMAIN agent.connections = DOMAIN call.pre.connections \cup {peer}
           /\ agent.connections[peer] = new
           /\ \A other \in DOMAIN call.pre.connections \ {peer} :
                 agent.connections[other] = call.pre.connections[other]
           /\ agent.beliefs = call.pre.beliefs
           /\ agent.information_history = call.pre.information_history
           /\ o > 0 => agent.connections[peer] >= c
           /\ o <= 0 => agent.connections[peer] <= c

\* An entry was created for an absent peer by a zero outcome while another
\* peer already had one.
C6_Witness ==
    /\ call.op = "update_trust"
    /\ call.other_agent_id \notin DOMAIN call.pre.connections
    /\ call.interaction_outcome = 0
    /\ call.pre.connections # EmptyDict
    /\ call.other_agent_id \in DOMAIN agent.connections

\* The agents of the population of one kind.
OfKind(kind) == {i \in 1..Len(population) : population[i].kind = kind}

\* C7: create_mixed_population(size, ratio) returns size agents, of which
\* k = floor(size * ratio) are PsychologicalAgents with ids psych_agent_0 ..
\* psych_agent_(k-1) and size - k are RationalAgents with ids rational_agent_0
\* .. rational_agent_(size-k-1), whatever the shuffle; ids are distinct, and
\* (10, 0.5) gives 5 of each kind.
C7_MixedPopulation ==
    call.op = "create_mixed_population" =>
        LET size == call.size
            k == (size * call.psychological_ratio) \div 10
        IN /\ Len(population) = size
           /\ Cardinality(OfKind("PsychologicalAgent")) = k
           /\ Cardinality(OfKind("RationalAgent")) = size - k
           /\ {population[i].agent_id : i \in OfKind("PsychologicalAgent")}
                 = {"psych_agent_" \o ToString(n) : n \in 0..(k - 1)}
           /\ {population[i].agent_id : i \in OfKind("RationalAgent")}
                 = {"rational_agent_" \o ToString(n) : n \in 0..(size - k - 1)}
           /\ \A i, j \in 1..size :
                 population[i].agent_id = population[j].agent_id => i = j
           /\ (size = 10 /\ call.psychological_ratio = 5) =>
                 /\ Cardinality(OfKind("PsychologicalAgent")) = 5
                 /\ Cardinality(OfKind("RationalAgent")) = 5

\* (10, 0.5) was built and the shuffle put a rational agent first.
C7_Witness ==
    /\ call.op = "create_mixed_population"
    /\ call.size = 10
    /\ call.psychological_ratio = 5
    /\ population[1].kind = "RationalAgent"

\* The total of a mapping over the keys the driver uses, absent keys as 0.
TotalTrust(d) ==
    (IF "agent_X" \in DOMAIN d THEN d["agent_X"] ELSE 0)
        + (IF "agent_Y" \in DOMAIN d THEN d["agent_Y"] ELSE 0)

TotalStrength(d) ==
    (IF "economy" \in DOMAIN d THEN Abs(d["economy"]) ELSE 0)
        + (IF "health" \in DOMAIN d THEN Abs(d["health"]) ELSE 0)

\* What get_psychological_summary answers in every state.
C8_SummaryAnswer ==
    call.op = "get_psychological_summary" =>
        /\ agent = call.pre
        /\ "raised" \notin DOMAIN call.ret
        /\ call.ret.agent_id = agent.agent_id
        /\ call.ret.num_beliefs = Cardinality(DOMAIN agent.beliefs)
        /\ agent.connections = EmptyDict =>
              call.ret.avg_trust.num = agent.default_trust * call.ret.avg_trust.den
        /\ agent.connections # EmptyDict =>
              call.ret.avg_trust.num * Cardinality(DOMAIN agent.connections)
                 = TotalTrust(agent.connections) * call.ret.avg_trust.den
        /\ agent.beliefs = EmptyDict => call.ret.belief_strength.num = 0
        /\ agent.beliefs # EmptyDict =>
              call.ret.belief_strength.num * Cardinality(DOMAIN agent.beliefs)
                 = TotalStrength(agent.beliefs) * call.ret.belief_strength.den

\* C8: get_psychological_summary never fails and changes nothing; two
\* consecutive calls return the same mapping; avg_trust is default_trust
\* without connections and the mean of the stored trusts otherwise;
\* belief_strength is 0.0 without beliefs and the mean of the absolute stored
\* beliefs otherwise.
C8_Summary ==
    /\ []C8_SummaryAnswer
    /\ [][(call.op = "get_psychological_summary"
            /\ call'.op = "get_psychological_summary")
          => (call'.ret = call.ret /\ agent' = agent)]_vars

\* The summary was asked of an agent with two beliefs and no connections.
C8_Witness ==
    /\ call.op = "get_psychological_summary"
    /\ agent.connections = EmptyDict
    /\ Cardinality(DOMAIN agent.beliefs) = 2
    /\ call.ret.avg_trust.num = agent.default_trust * call.ret.avg_trust.den

\* The sign of a value.
Sign(x) == IF x > 0 THEN 1 ELSE IF x < 0 THEN -1 ELSE 0

\* C9: with no clamping active, the same info (value v # 0) at the same
\* source_trust moves the belief further in the direction of sign(v) for an
\* agent whose belief on the topic has the sign of v than for an agent of the
\* same loss_sensitivity whose belief has the same magnitude and the opposite
\* sign.
C9_ConfirmationBias ==
    (/\ call.op = "process_information"
     /\ twinCall.op = "process_information"
     /\ call.info = twinCall.info
     /\ call.source_trust = twinCall.source_trust
     /\ call.info.topic \in DOMAIN call.pre.beliefs
     /\ call.info.topic \in DOMAIN twinCall.pre.beliefs
     /\ call.pre.loss_sensitivity = twinCall.pre.loss_sensitivity)
    =>
        LET topic == call.info.topic
            v == call.info.value
            agreeing == call.pre.beliefs[topic]
            opposing == twinCall.pre.beliefs[topic]
        IN (/\ v # 0
            /\ agreeing # 0
            /\ Sign(agreeing) = Sign(v)
            /\ opposing = -agreeing
            /\ Abs(agent.beliefs[topic]) < 10000
            /\ Abs(twin.beliefs[topic]) < 10000)
           => Sign(v) * (agent.beliefs[topic] - agreeing)
                 > Sign(v) * (twin.beliefs[topic] - opposing)

\* C10: decide_to_share returns true exactly when the draw r is below
\* p = |belief| * trust * urgency / 3, where belief is 0 for an unknown topic,
\* trust is default_trust for an unknown source and urgency is
\* loss_sensitivity for a negative value and 1 otherwise; p is not clamped, so
\* with no belief the agent never shares and with p >= 1 it always shares.
C10_DecideToShare ==
    call.op = "decide_to_share" =>
        LET topic == call.info.topic
            source == call.info.source_id
            strength == IF topic \in DOMAIN call.pre.beliefs
                        THEN Abs(call.pre.beliefs[topic]) ELSE 0
            trust == IF source \in DOMAIN call.pre.connections
                     THEN call.pre.connections[source] ELSE call.pre.default_trust
            urgency == IF call.info.value < 0 THEN call.pre.loss_sensitivity ELSE 10
            \* 3 * p and 3 * r in units of 1/10^8
            p3 == strength * trust * urgency
            r3 == 3 * call.draw * 10000000
        IN /\ call.ret = (r3 < p3)
           /\ strength = 0 => call.ret = FALSE
           /\ p3 >= 3 * 100000000 => call.ret = TRUE

\* A saturated belief, full trust and loss_sensitivity 3.0 make p = 1, and the
\* agent shared on the highest draw.
C10_Witness ==
    /\ call.op = "decide_to_share"
    /\ call.info.value < 0
    /\ Abs(DictGet(agent.beliefs, call.info.topic, 0)) = 10000
    /\ agent.default_trust = 1000
    /\ agent.loss_sensitivity = 30
    /\ call.draw = 9
    /\ call.ret = TRUE

====
